---- MODULE Spec2Model ----
(***************************************************************************)
(* The examples of the repository as state machines.                       *)
(*   Spec, SpecFair  src/slice_type.rs: the first_word scan, its caller    *)
(*                   main() (views into a String, s.clear(), println!)     *)
(*                   and main_a().                                         *)
(*   SpecConc        first_word called by several callers, each over a     *)
(*                   String of its own, their steps interleaved.           *)
(*   SpecOwn         src/main.rs: moves, clones, copies, functions that    *)
(*                   take and give ownership, drop at the end of scope.    *)
(*   SpecBor         src/references_and_borrowing.rs: & and &mut           *)
(*                   references of one String, their scopes, dangle().     *)
(* A program the compiler rejects ends in a state named after the error.   *)
(***************************************************************************)
EXTENDS Integers, Sequences, FiniteSets, TLC

\* ------------------------------------------------------------- bounds
MaxLen == 3
MaxCalls == 2
MaxClears == 1
MaxConcLen == 2
MaxAllocs == 2
MaxPush == 1

\* ------------------------------------------------------------- text
\* b' '
SPACE == 32

\* code points the Strings are built from: ' ', 'a', U+00E9 (two bytes in UTF-8)
Chars == {32, 97, 233}

\* the addresses an allocation can get
Handles == {"h1", "h2"}

NoView == [buf |-> "none", start |-> 0, len |-> 0, gen |-> 0]

Texts == UNION {[1..n -> Chars] : n \in 0..MaxLen}

\* char::encode_utf8 for code points below U+0800
encode_utf8(c) ==
    IF c < 128 THEN <<c>> ELSE <<192 + (c \div 64), 128 + (c % 64)>>

RECURSIVE StringFrom(_)
\* String::from(text): the UTF-8 bytes of the text
StringFrom(cs) ==
    IF cs = <<>> THEN <<>> ELSE encode_utf8(Head(cs)) \o StringFrom(Tail(cs))

VARIABLES
    s,         \* the String: [ptr, len]
    mem,       \* the bytes of the String's heap buffer
    alloc,     \* the heap buffer is allocated (not freed yet)
    gen,       \* number of mutations of the buffer so far
    pc,        \* "main", "loop", "E0502", "panic", "end"
    bytes,     \* first_word: the view as_bytes() gave
    i,         \* first_word: the index of enumerate()
    examined,  \* offsets the current (or last) scan compared with b' '
    words,     \* the calls made: [arg, res, live]
    printed,   \* what the last println! read: [k, text, valid]
    better,    \* main_a: what the calls of first_word_better_signature returned
    conc,      \* concurrent callers of first_word: caller -> [mem, orig, pc, i, res]
    own,       \* the ownership examples of main.rs: [st, at, frees, nalloc, status, last]
    bor        \* the borrowing examples: [refs, alive, frees, ver, status, last]

\* the state of the programs other than main() of slice_type.rs
rest == <<better, conc, own, bor>>

scanvars == <<s, mem, alloc, gen, pc, bytes, i, examined, words, printed>>

vars == <<scanvars, rest>>

NoPrint == [k |-> 0, text |-> <<>>, valid |-> TRUE]

\* ------------------------------------------------------------- views
\* the bytes of the String, offsets 0 .. len-1
Contents == SubSeq(mem, 1, s.len)

\* the byte of the buffer at an offset
ByteAt(off) == mem[off + 1]

\* s.as_bytes(): a view of the whole String, no copy
as_bytes(str) == [buf |-> str.ptr, start |-> 0, len |-> str.len, gen |-> gen]

\* str::is_char_boundary
is_char_boundary(str, idx) ==
    IF idx = 0 THEN TRUE
    ELSE IF idx >= str.len THEN idx = str.len
    ELSE ByteAt(idx) < 128 \/ ByteAt(idx) >= 192

\* &s[a..e] panics unless the range is legal
SliceLegal(str, a, e) ==
    /\ 0 <= a
    /\ a <= e
    /\ e <= str.len
    /\ is_char_boundary(str, a)
    /\ is_char_boundary(str, e)

\* mutation: the slice is copied into a buffer of its own (to_owned)
Slice_Copy(str, a, e) == [buf |-> "copy", start |-> a, len |-> e - a, gen |-> gen]

\* &s[a..e]: a view into the String's buffer
Slice(str, a, e) == [buf |-> str.ptr, start |-> a, len |-> e - a, gen |-> gen]

\* mutation: nothing is returned when no space is found
SliceFull_Empty(str) == Slice(str, 0, 0)

\* &s[..]
SliceFull(str) == Slice(str, 0, str.len)

\* mutation: the delimiter literal is b'\t'
IsSpace_Tab(item) == item = 9

\* item == b' '
IsSpace(item) == item = SPACE

\* mutation: &s[0..i - 1]
FoundEnd_Before(idx) == idx - 1

\* mutation: &s[0..=i]
FoundEnd_Inclusive(idx) == idx + 1

\* the end of the range returned when the space is at offset idx: &s[0..i]
FoundEnd(idx) == idx

\* a view is valid while its buffer is allocated and unmodified since it was taken
Valid(v) == alloc /\ v.buf = s.ptr /\ v.gen = gen

InBounds(v) == v.start + v.len <= s.len

\* the bytes a view denotes
Text(v) == SubSeq(mem, v.start + 1, v.start + v.len)

SomeLive == \E k \in 1..Len(words) : words[k].live

\* the callers that scan concurrently, each over a String of its own
Callers == {"c1", "c2"}

ConcTexts == UNION {[1..n -> Chars] : n \in 0..MaxConcLen}

\* no concurrent caller exists
ConcIdle == [c \in Callers |->
                [mem |-> <<>>, orig |-> <<>>, pc |-> "none", i |-> 0, res |-> NoView]]

\* the String variables and the integer variables of the ownership examples
StrNames == {"s1", "s2", "s3"}

IntNames == {"x", "y"}

Names == StrNames \cup IntNames

NoOp == [op |-> "none", from |-> "s1", to |-> "s1"]

\* no variable is declared and nothing is allocated
OwnFresh(status) ==
    [st |-> [v \in Names |-> "undeclared"],
     at |-> [v \in Names |-> 0],
     frees |-> [a \in 1..MaxAllocs |-> 0],
     nalloc |-> 0,
     status |-> status,
     last |-> NoOp]

\* the ownership examples are not running
OwnIdle == OwnFresh("none")

\* the reference variables of the borrowing examples
RefNames == {"r1", "r2", "r3"}

NoRef == [kind |-> "none", live |-> FALSE, target |-> "s", ver |-> 0]

\* the String s exists, no reference to it has been taken
BorFresh(status) ==
    [refs |-> [r \in RefNames |-> NoRef],
     alive |-> [s |-> TRUE, local |-> FALSE],
     frees |-> 0,
     ver |-> 0,
     status |-> status,
     last |-> "none"]

\* the borrowing examples are not running
BorIdle == BorFresh("none")

\* ------------------------------------------------------------- Init
Init ==
    \E cs \in Texts, h \in Handles :
        /\ mem = StringFrom(cs)
        /\ s = [ptr |-> h, len |-> Len(StringFrom(cs))]
        /\ alloc = TRUE
        /\ gen = 0
        /\ pc = "main"
        /\ bytes = NoView
        /\ i = 0
        /\ examined = <<>>
        /\ words = <<>>
        /\ printed = NoPrint
        /\ better = <<>>
        /\ conc = ConcIdle
        /\ own = OwnIdle
        /\ bor = BorIdle

\* ------------------------------------------------------------- first_word
\* mutation: the iterator skips the first byte
Call_SkipFirst ==
    /\ pc = "main"
    /\ Len(words) < MaxCalls
    /\ bytes' = as_bytes(s)
    /\ i' = IF s.len > 0 THEN 1 ELSE 0
    /\ examined' = <<>>
    /\ pc' = "loop"
    /\ UNCHANGED <<s, mem, alloc, gen, words, printed, rest>>

\* mutation: a cursor kept between the calls, the scan resumes after the last word
Call_Resume ==
    /\ pc = "main"
    /\ Len(words) < MaxCalls
    /\ bytes' = as_bytes(s)
    /\ i' = IF words = <<>> \/ words[Len(words)].res.len >= s.len
            THEN 0
            ELSE words[Len(words)].res.len + 1
    /\ examined' = <<>>
    /\ pc' = "loop"
    /\ UNCHANGED <<s, mem, alloc, gen, words, printed, rest>>

\* first_word(&s): let bytes = s.as_bytes(); the iterator starts at 0
Call ==
    /\ pc = "main"
    /\ Len(words) < MaxCalls
    /\ bytes' = as_bytes(s)
    /\ i' = 0
    /\ examined' = <<>>
    /\ pc' = "loop"
    /\ UNCHANGED <<s, mem, alloc, gen, words, printed, rest>>

\* return of first_word: the caller's `word` holds the view
Return(v) ==
    /\ words' = Append(words, [arg |-> bytes, res |-> v, live |-> TRUE])
    /\ pc' = "main"

\* mutation: no early return, the last space of the buffer is the boundary
LoopFound_LastSpace ==
    /\ pc = "loop"
    /\ i < bytes.len
    /\ IsSpace(ByteAt(bytes.start + i))
    /\ examined' = Append(examined, i)
    /\ IF \E j \in (i + 1)..(bytes.len - 1) : IsSpace(ByteAt(bytes.start + j))
       THEN i' = i + 1 /\ UNCHANGED <<pc, words>>
       ELSE Return(Slice(s, 0, FoundEnd(i))) /\ UNCHANGED i
    /\ UNCHANGED <<s, mem, alloc, gen, bytes, printed, rest>>

\* mutation: the String is truncated at the space and returned whole
LoopFound_Truncate ==
    /\ pc = "loop"
    /\ i < bytes.len
    /\ IsSpace(ByteAt(bytes.start + i))
    /\ examined' = Append(examined, i)
    /\ s' = [s EXCEPT !.len = i]
    /\ Return(Slice(s, 0, i))
    /\ UNCHANGED <<mem, alloc, gen, bytes, i, printed, rest>>

\* if item == b' ' { return &s[0..i]; }
LoopFound ==
    /\ pc = "loop"
    /\ i < bytes.len
    /\ IsSpace(ByteAt(bytes.start + i))
    /\ examined' = Append(examined, i)
    /\ IF SliceLegal(s, 0, FoundEnd(i))
       THEN Return(Slice(s, 0, FoundEnd(i)))
       ELSE pc' = "panic" /\ UNCHANGED words
    /\ UNCHANGED <<s, mem, alloc, gen, bytes, i, printed, rest>>

\* mutation: the iterator is advanced twice
LoopAdvance_Skip ==
    /\ pc = "loop"
    /\ i < bytes.len
    /\ ~IsSpace(ByteAt(bytes.start + i))
    /\ examined' = Append(examined, i)
    /\ i' = i + 2
    /\ UNCHANGED <<s, mem, alloc, gen, pc, bytes, words, printed, rest>>

\* the item is no space: the iterator moves on
LoopAdvance ==
    /\ pc = "loop"
    /\ i < bytes.len
    /\ ~IsSpace(ByteAt(bytes.start + i))
    /\ examined' = Append(examined, i)
    /\ i' = i + 1
    /\ UNCHANGED <<s, mem, alloc, gen, pc, bytes, words, printed, rest>>

\* the iterator is exhausted: &s[..]
LoopEnd ==
    /\ pc = "loop"
    /\ i >= bytes.len
    /\ Return(SliceFull(s))
    /\ UNCHANGED <<s, mem, alloc, gen, bytes, i, examined, printed, rest>>

\* ------------------------------------------------------------- the caller
\* mutation: the borrow is not checked, the String is cleared under the view
ClearUnchecked ==
    /\ pc = "main"
    /\ SomeLive
    /\ gen < MaxClears
    /\ s' = [s EXCEPT !.len = 0]
    /\ gen' = gen + 1
    /\ UNCHANGED <<mem, alloc, pc, bytes, i, examined, words, printed, rest>>

\* s.clear() while a view of s is still to be used: error[E0502]
ClearRejected ==
    /\ pc = "main"
    /\ SomeLive
    /\ pc' = "E0502"
    /\ UNCHANGED <<s, mem, alloc, gen, bytes, i, examined, words, printed, rest>>

\* s.clear(): truncates the String, the buffer keeps its capacity
Clear ==
    /\ pc = "main"
    /\ ~SomeLive
    /\ gen < MaxClears
    /\ s' = [s EXCEPT !.len = 0]
    /\ gen' = gen + 1
    /\ UNCHANGED <<mem, alloc, pc, bytes, i, examined, words, printed, rest>>

\* println!("the first word is: {}", word); `last` says it is the last use
Println ==
    /\ pc = "main"
    /\ \E k \in 1..Len(words), last \in BOOLEAN :
        /\ words[k].live
        /\ printed' = [k |-> k,
                       text |-> Text(words[k].res),
                       valid |-> Valid(words[k].res) /\ InBounds(words[k].res)]
        /\ words' = [words EXCEPT ![k].live = ~last]
    /\ UNCHANGED <<s, mem, alloc, gen, pc, bytes, i, examined, rest>>

\* a view that is not used again: its borrow ends (non-lexical lifetime)
Release ==
    /\ pc = "main"
    /\ \E k \in 1..Len(words) :
        /\ words[k].live
        /\ words' = [words EXCEPT ![k].live = FALSE]
    /\ UNCHANGED <<s, mem, alloc, gen, pc, bytes, i, examined, printed, rest>>

\* the closing brace of main: the views go out of scope, then s is dropped
ScopeEnd ==
    /\ pc = "main"
    /\ words' = [k \in 1..Len(words) |-> [words[k] EXCEPT !.live = FALSE]]
    /\ alloc' = FALSE
    /\ pc' = "end"
    /\ UNCHANGED <<s, mem, gen, bytes, i, examined, printed, rest>>

\* ------------------------------------------------------------- main_a
\* the value of the empty block `{}`
Unit == [buf |-> "()", start |-> 0, len |-> 0, gen |-> 0]

\* fn first_word_better_signature(s: &str) -> &str {}
first_word_better_signature(v) == Unit

\* let my_string_literal = "hello world": static text with the bytes of my_string
my_string_literal == [buf |-> "static", start |-> 0, len |-> s.len, gen |-> 0]

\* main_a: let word = first_word_better_signature(&my_string[..]); the body
\* yields `()` where a &str is expected, error[E0308], so the calls on the
\* literal are never reached
MainA ==
    /\ pc = "main"
    /\ words = <<>>
    /\ gen = 0
    /\ better = <<>>
    /\ better' = <<[arg |-> SliceFull(s),
                    res |-> first_word_better_signature(SliceFull(s))]>>
    /\ pc' = IF first_word_better_signature(SliceFull(s)) = Unit
             THEN "E0308" ELSE "main_a"
    /\ UNCHANGED <<s, mem, alloc, gen, bytes, i, examined, words, printed, conc, own, bor>>

Next ==
    \/ Call
    \/ LoopFound
    \/ LoopAdvance
    \/ LoopEnd
    \/ ClearRejected
    \/ Clear
    \/ Println
    \/ Release
    \/ ScopeEnd
    \/ MainA

Spec == Init /\ [][Next]_vars

\* first_word is synchronous and runs to its return once called
SpecFair ==
    /\ Spec
    /\ WF_vars(LoopFound)
    /\ WF_vars(LoopAdvance)
    /\ WF_vars(LoopEnd)

\* ------------------------------------------------------------- concurrent callers
\* main() is not running: its state stays as it is before `let mut s`
ScanIdle ==
    /\ mem = <<>>
    /\ s = [ptr |-> "h1", len |-> 0]
    /\ alloc = FALSE
    /\ gen = 0
    /\ pc = "none"
    /\ bytes = NoView
    /\ i = 0
    /\ examined = <<>>
    /\ words = <<>>
    /\ printed = NoPrint
    /\ better = <<>>

\* what the concurrent callers leave alone
restOfConc == <<scanvars, better, own, bor>>

\* each caller owns a String of its own
InitConc ==
    /\ ScanIdle
    /\ own = OwnIdle
    /\ bor = BorIdle
    /\ \E f \in [Callers -> ConcTexts] :
          conc = [c \in Callers |->
                     [mem |-> StringFrom(f[c]), orig |-> StringFrom(f[c]),
                      pc |-> "idle", i |-> 0, res |-> NoView]]

\* caller c enters first_word(&s): the iterator starts at 0
ConcCall(c) ==
    /\ conc[c].pc = "idle"
    /\ conc' = [conc EXCEPT ![c].pc = "loop", ![c].i = 0]
    /\ UNCHANGED restOfConc

\* caller c: if item == b' ' { return &s[0..i]; }
ConcFound(c) ==
    /\ conc[c].pc = "loop"
    /\ conc[c].i < Len(conc[c].mem)
    /\ IsSpace(conc[c].mem[conc[c].i + 1])
    /\ conc' = [conc EXCEPT
                  ![c].pc = "done",
                  ![c].res = [buf |-> c, start |-> 0,
                              len |-> FoundEnd(conc[c].i), gen |-> 0]]
    /\ UNCHANGED restOfConc

\* mutation: the index of the loop is a static shared by the callers
ConcAdvance_Shared(c) ==
    /\ conc[c].pc = "loop"
    /\ conc[c].i < Len(conc[c].mem)
    /\ ~IsSpace(conc[c].mem[conc[c].i + 1])
    /\ conc' = [d \in Callers |->
                  IF conc[d].pc = "loop"
                  THEN [conc[d] EXCEPT !.i = conc[c].i + 1]
                  ELSE conc[d]]
    /\ UNCHANGED restOfConc

\* caller c: the item is no space, the iterator moves on
ConcAdvance(c) ==
    /\ conc[c].pc = "loop"
    /\ conc[c].i < Len(conc[c].mem)
    /\ ~IsSpace(conc[c].mem[conc[c].i + 1])
    /\ conc' = [conc EXCEPT ![c].i = conc[c].i + 1]
    /\ UNCHANGED restOfConc

\* caller c: the iterator is exhausted, &s[..]
ConcEnd(c) ==
    /\ conc[c].pc = "loop"
    /\ conc[c].i >= Len(conc[c].mem)
    /\ conc' = [conc EXCEPT
                  ![c].pc = "done",
                  ![c].res = [buf |-> c, start |-> 0,
                              len |-> Len(conc[c].mem), gen |-> 0]]
    /\ UNCHANGED restOfConc

NextConc ==
    \/ \E c \in Callers : ConcCall(c)
    \/ \E c \in Callers : ConcFound(c)
    \/ \E c \in Callers : ConcAdvance(c)
    \/ \E c \in Callers : ConcEnd(c)

SpecConc == InitConc /\ [][NextConc]_vars

\* ------------------------------------------------------------- ownership (main.rs)
\* what the ownership examples leave alone
restOfOwn == <<scanvars, better, conc, bor>>

InitOwn ==
    /\ ScanIdle
    /\ conc = ConcIdle
    /\ own = OwnFresh("run")
    /\ bor = BorIdle

\* the variable can be read or moved from: it is declared and not moved-from
Usable(v) == own.st[v] \in {"owns", "int"}

\* a use of a moved-from variable: error[E0382]: borrow of moved value
Rejected(v) ==
    own' = [own EXCEPT !.status = "E0382",
                       !.last = [op |-> "rejected", from |-> v, to |-> v]]

\* let s = String::from("hello"): s owns a new allocation
LetStringFrom(v) ==
    /\ own.status = "run"
    /\ own.st[v] = "undeclared"
    /\ own.nalloc < MaxAllocs
    /\ own' = [own EXCEPT !.st[v] = "owns",
                          !.at[v] = own.nalloc + 1,
                          !.nalloc = own.nalloc + 1,
                          !.last = [op |-> "new", from |-> v, to |-> v]]
    /\ UNCHANGED restOfOwn

\* mutation: the assignment copies pointer, length and capacity and leaves s1 valid
AfterMove_StillOwns == "owns"

\* the state of a variable after its value was moved out: no longer valid
AfterMove == "moved"

\* let s2 = s1: the String is moved, s1 is no longer valid
LetMove(v1, v2) ==
    /\ own.status = "run"
    /\ v1 # v2
    /\ own.st[v1] \in {"owns", "moved"}
    /\ own.st[v2] = "undeclared"
    /\ IF own.st[v1] = "moved"
       THEN Rejected(v1)
       ELSE own' = [own EXCEPT !.st[v1] = AfterMove,
                               !.st[v2] = "owns",
                               !.at[v2] = own.at[v1],
                               !.last = [op |-> "move", from |-> v1, to |-> v2]]
    /\ UNCHANGED restOfOwn

\* let s2 = s1.clone(): the heap data is copied, both variables stay valid
LetClone(v1, v2) ==
    /\ own.status = "run"
    /\ v1 # v2
    /\ own.st[v1] \in {"owns", "moved"}
    /\ own.st[v2] = "undeclared"
    /\ own.nalloc < MaxAllocs
    /\ IF own.st[v1] = "moved"
       THEN Rejected(v1)
       ELSE own' = [own EXCEPT !.st[v2] = "owns",
                               !.at[v2] = own.nalloc + 1,
                               !.nalloc = own.nalloc + 1,
                               !.last = [op |-> "clone", from |-> v1, to |-> v2]]
    /\ UNCHANGED restOfOwn

\* let x = 5
LetInt(x) ==
    /\ own.status = "run"
    /\ own.st[x] = "undeclared"
    /\ own' = [own EXCEPT !.st[x] = "int",
                          !.last = [op |-> "new", from |-> x, to |-> x]]
    /\ UNCHANGED restOfOwn

\* let y = x: integers are Copy, x stays valid
LetCopy(x, y) ==
    /\ own.status = "run"
    /\ x # y
    /\ own.st[x] = "int"
    /\ own.st[y] = "undeclared"
    /\ own' = [own EXCEPT !.st[y] = "int",
                          !.last = [op |-> "copy", from |-> x, to |-> y]]
    /\ UNCHANGED restOfOwn

\* println!("{}", v): reads the variable
PrintlnVar(v) ==
    /\ own.status = "run"
    /\ own.st[v] # "undeclared"
    /\ IF Usable(v)
       THEN own' = [own EXCEPT !.last = [op |-> "use", from |-> v, to |-> v]]
       ELSE Rejected(v)
    /\ UNCHANGED restOfOwn

\* mutation: a moved-from variable still frees what its pointer refers to
DropFrees_Moved(st) == st \in {"owns", "moved"}

\* drop at the end of a variable's scope: only an owner frees
DropFrees(st) == st = "owns"

\* takes_ownership(s): s moves into some_string, which is printed and
\* dropped when the function ends
TakesOwnership(v) ==
    /\ own.status = "run"
    /\ own.st[v] \in {"owns", "moved"}
    /\ IF own.st[v] = "moved"
       THEN Rejected(v)
       ELSE own' = [own EXCEPT
                      !.st[v] = AfterMove,
                      !.frees[own.at[v]] =
                          IF DropFrees("owns") THEN @ + 1 ELSE @,
                      !.last = [op |-> "takes", from |-> v, to |-> v]]
    /\ UNCHANGED restOfOwn

\* makes_copy(x): i32 is Copy, x is still usable afterward
MakesCopy(x) ==
    /\ own.status = "run"
    /\ own.st[x] = "int"
    /\ own' = [own EXCEPT !.last = [op |-> "makes_copy", from |-> x, to |-> x]]
    /\ UNCHANGED restOfOwn

\* let s1 = gives_ownership(): some_string is allocated in the function and
\* moved out to the caller
GivesOwnership(v) ==
    /\ own.status = "run"
    /\ own.st[v] = "undeclared"
    /\ own.nalloc < MaxAllocs
    /\ own' = [own EXCEPT !.st[v] = "owns",
                          !.at[v] = own.nalloc + 1,
                          !.nalloc = own.nalloc + 1,
                          !.last = [op |-> "gives", from |-> v, to |-> v]]
    /\ UNCHANGED restOfOwn

\* let s3 = takes_and_gives_back(s2): s2 moves into a_string, which moves
\* out into s3
TakesAndGivesBack(v1, v2) ==
    /\ own.status = "run"
    /\ v1 # v2
    /\ own.st[v1] \in {"owns", "moved"}
    /\ own.st[v2] = "undeclared"
    /\ IF own.st[v1] = "moved"
       THEN Rejected(v1)
       ELSE own' = [own EXCEPT !.st[v1] = AfterMove,
                               !.st[v2] = "owns",
                               !.at[v2] = own.at[v1],
                               !.last = [op |-> "back", from |-> v1, to |-> v2]]
    /\ UNCHANGED restOfOwn

\* the closing brace: every variable goes out of scope and is dropped
OwnScopeEnd ==
    /\ own.status = "run"
    /\ own' = [own EXCEPT
                 !.frees = [a \in 1..MaxAllocs |->
                              own.frees[a] + Cardinality(
                                  {v \in StrNames :
                                      DropFrees(own.st[v]) /\ own.at[v] = a})],
                 !.status = "end",
                 !.last = [op |-> "end", from |-> "s1", to |-> "s1"]]
    /\ UNCHANGED restOfOwn

NextOwn ==
    \/ \E v \in StrNames : LetStringFrom(v)
    \/ \E v1 \in StrNames, v2 \in StrNames : LetMove(v1, v2)
    \/ \E v1 \in StrNames, v2 \in StrNames : LetClone(v1, v2)
    \/ \E x \in IntNames : LetInt(x)
    \/ \E x \in IntNames, y \in IntNames : LetCopy(x, y)
    \/ \E v \in Names : PrintlnVar(v)
    \/ \E v \in StrNames : TakesOwnership(v)
    \/ \E x \in IntNames : MakesCopy(x)
    \/ \E v \in StrNames : GivesOwnership(v)
    \/ \E v1 \in StrNames, v2 \in StrNames : TakesAndGivesBack(v1, v2)
    \/ OwnScopeEnd

SpecOwn == InitOwn /\ [][NextOwn]_vars

\* ------------------------------------------------------------- borrowing (references_and_borrowing.rs)
\* what the borrowing examples leave alone
restOfBor == <<scanvars, better, conc, own>>

InitBor ==
    /\ ScanIdle
    /\ conc = ConcIdle
    /\ own = OwnIdle
    /\ bor = BorFresh("run")

\* the references of a kind that are still to be used
LiveRefs(kind) == {r \in RefNames : bor.refs[r].kind = kind /\ bor.refs[r].live}

\* the program is rejected at compile time with the error
BorRejected(err, op) == bor' = [bor EXCEPT !.status = err, !.last = op]

\* let r1 = &s: any number of immutable references, but none while a
\* mutable one is live
BorrowShared(r) ==
    /\ bor.status = "run"
    /\ bor.refs[r].kind = "none"
    /\ IF LiveRefs("mut") # {}
       THEN BorRejected("E0502", "shared")
       ELSE bor' = [bor EXCEPT
                      !.refs[r] = [kind |-> "shared", live |-> TRUE,
                                   target |-> "s", ver |-> bor.ver],
                      !.last = "shared"]
    /\ UNCHANGED restOfBor

\* mutation: &mut s is handed out whatever references are live
BorrowMut_Unchecked(r) ==
    /\ bor.status = "run"
    /\ bor.refs[r].kind = "none"
    /\ bor' = [bor EXCEPT
                 !.refs[r] = [kind |-> "mut", live |-> TRUE,
                              target |-> "s", ver |-> bor.ver],
                 !.last = "mut"]
    /\ UNCHANGED restOfBor

\* let r2 = &mut s: error[E0499] while a mutable reference is live,
\* error[E0502] while immutable references are still to be used
BorrowMut(r) ==
    /\ bor.status = "run"
    /\ bor.refs[r].kind = "none"
    /\ IF LiveRefs("mut") # {}
       THEN BorRejected("E0499", "mut")
       ELSE IF LiveRefs("shared") # {}
       THEN BorRejected("E0502", "mut")
       ELSE bor' = [bor EXCEPT
                      !.refs[r] = [kind |-> "mut", live |-> TRUE,
                                   target |-> "s", ver |-> bor.ver],
                      !.last = "mut"]
    /\ UNCHANGED restOfBor

\* mutation: a reference that goes out of scope drops the String it points to
RefDropFrees_Owner == TRUE

\* a reference does not own what it refers to: nothing happens when it goes
\* out of scope
RefDropFrees == FALSE

\* the String after a reference to it went out of scope
AfterRefDrop(b) ==
    IF RefDropFrees
    THEN [b EXCEPT !.alive.s = FALSE, !.frees = b.frees + 1]
    ELSE b

\* println!("{}", r): the reference is read; its scope ends with its last use
UseRef(r) ==
    /\ bor.status = "run"
    /\ bor.refs[r].live
    /\ \E last \in BOOLEAN :
          bor' = IF last
                 THEN AfterRefDrop([bor EXCEPT !.refs[r].live = FALSE, !.last = "use"])
                 ELSE [bor EXCEPT !.last = "use"]
    /\ UNCHANGED restOfBor

\* the closing brace of an inner block: the reference goes out of scope
EndRef(r) ==
    /\ bor.status = "run"
    /\ bor.refs[r].live
    /\ bor' = AfterRefDrop([bor EXCEPT !.refs[r].live = FALSE, !.last = "endref"])
    /\ UNCHANGED restOfBor

\* let len = calculate_length_two(&s1): the parameter borrows s1 for the
\* call and goes out of scope at its end
CalculateLength ==
    /\ bor.status = "run"
    /\ IF LiveRefs("mut") # {}
       THEN BorRejected("E0502", "len")
       ELSE bor' = AfterRefDrop([bor EXCEPT !.last = "len"])
    /\ UNCHANGED restOfBor

\* change_two(&mut s): some_string.push_str(", world")
ChangeTwo ==
    /\ bor.status = "run"
    /\ bor.ver < MaxPush
    /\ IF LiveRefs("mut") # {}
       THEN BorRejected("E0499", "push")
       ELSE IF LiveRefs("shared") # {}
       THEN BorRejected("E0502", "push")
       ELSE bor' = AfterRefDrop([bor EXCEPT !.ver = bor.ver + 1, !.last = "push"])
    /\ UNCHANGED restOfBor

\* println!("The length of '{}' is {}.", s1, len): the owner reads its String
OwnerUse ==
    /\ bor.status = "run"
    /\ bor.alive.s
    /\ IF LiveRefs("mut") # {}
       THEN BorRejected("E0502", "owner")
       ELSE bor' = [bor EXCEPT !.last = "owner"]
    /\ UNCHANGED restOfBor

\* let reference_to_nothing = dangle(): the String created in dangle is
\* dropped at its end, returning &s is rejected (error[E0106])
Dangle(r) ==
    /\ bor.status = "run"
    /\ bor.refs[r].kind = "none"
    /\ BorRejected("E0106", "dangle")
    /\ UNCHANGED restOfBor

\* the closing brace of the function: the references go out of scope, then
\* the String is dropped by its owner
BorScopeEnd ==
    /\ bor.status = "run"
    /\ bor.alive.s
    /\ bor' = [bor EXCEPT
                 !.refs = [r \in RefNames |-> [bor.refs[r] EXCEPT !.live = FALSE]],
                 !.alive.s = FALSE,
                 !.frees = bor.frees + 1,
                 !.status = "end",
                 !.last = "end"]
    /\ UNCHANGED restOfBor

NextBor ==
    \/ \E r \in RefNames : BorrowShared(r)
    \/ \E r \in RefNames : BorrowMut(r)
    \/ \E r \in RefNames : UseRef(r)
    \/ \E r \in RefNames : EndRef(r)
    \/ CalculateLength
    \/ ChangeTwo
    \/ OwnerUse
    \/ \E r \in RefNames : Dangle(r)
    \/ BorScopeEnd

SpecBor == InitBor /\ [][NextBor]_vars

\* ------------------------------------------------------------- typing
TypeOK ==
    /\ pc \in {"main", "loop", "E0502", "panic", "end", "main_a", "E0308", "none"}
    /\ s.ptr \in Handles
    /\ s.len \in 0..Len(mem)
    /\ i \in 0..Len(mem)
    /\ gen \in 0..MaxClears
    /\ Len(words) <= MaxCalls

\* ------------------------------------------------------------- the scan as a function
RECURSIVE scan(_, _)
\* the for loop of first_word over the bytes b, from index idx on
scan(b, idx) ==
    IF idx >= Len(b) THEN [start |-> 0, len |-> Len(b)]
    ELSE IF IsSpace(b[idx + 1]) THEN [start |-> 0, len |-> FoundEnd(idx)]
    ELSE scan(b, idx + 1)

\* first_word as a function of the buffer's bytes: the range it returns
first_word(b) == scan(b, 0)

\* ------------------------------------------------------------- claims
Calls == 1..Len(words)

\* the buffer has not been modified since call k read it
Unmodified(k) == words[k].arg.gen = gen

Range(v) == [start |-> v.start, len |-> v.len]

SpaceAt(p) == p < s.len /\ ByteAt(p) = 32

NoSpaceBefore(p) == \A q \in 0..(p - 1) : ByteAt(q) # 32

\* C1: for a buffer prefix + [0x20] + suffix whose prefix holds no space,
\* first_word returns the view [0, len(prefix)): exactly the bytes of prefix,
\* its end offset the offset of the first space.
C1_PrefixBeforeFirstSpace ==
    \A k \in Calls : \A p \in 0..(s.len - 1) :
        (Unmodified(k) /\ SpaceAt(p) /\ NoSpaceBefore(p)) =>
            /\ words[k].res.buf = s.ptr
            /\ words[k].res.start = 0
            /\ words[k].res.len = p
            /\ Text(words[k].res) = SubSeq(Contents, 1, p)

C1_Witness ==
    \E k \in Calls : \E p \in 1..(s.len - 2) :
        /\ Unmodified(k)
        /\ SpaceAt(p)
        /\ NoSpaceBefore(p)
        /\ words[k].res.len = p

\* C2: for a buffer without a space byte first_word returns the view of the
\* whole buffer, [0, len): the same range and the same bytes as the input.
C2_WholeBufferWhenNoSpace ==
    \A k \in Calls :
        (Unmodified(k) /\ NoSpaceBefore(s.len)) =>
            /\ Range(words[k].res) = [start |-> 0, len |-> s.len]
            /\ Range(words[k].res) = Range(words[k].arg)
            /\ words[k].res.buf = words[k].arg.buf
            /\ Text(words[k].res) = Contents

C2_Witness ==
    \E k \in Calls :
        /\ Unmodified(k)
        /\ NoSpaceBefore(s.len)
        /\ s.len >= 3
        /\ words[k].res.len = s.len

\* C3: first_word is total: the scan never panics (the slice taken at the
\* space offset is a legal range), a scan in progress can always take its
\* next step, and the scan of an empty buffer returns an empty view.
C3_Total ==
    /\ pc # "panic"
    /\ pc = "loop" => ENABLED (LoopFound \/ LoopAdvance \/ LoopEnd)
    /\ \A k \in Calls : words[k].arg.len = 0 => words[k].res.len = 0

C3_Witness ==
    /\ pc = "main"
    /\ Len(words) = 2
    /\ words[1].res.len >= 2
    /\ words[1].res.len < words[1].arg.len
    /\ mem[words[1].res.len] >= 128
    /\ words[2].arg.len = 0
    /\ words[2].res.len = 0

\* C4: the view first_word returns never extends past the bounds of its
\* input and never includes the space byte that stopped the scan.
C4_WithinBoundsWithoutDelimiter ==
    \A k \in Calls :
        /\ words[k].res.start >= words[k].arg.start
        /\ words[k].res.start + words[k].res.len
               <= words[k].arg.start + words[k].arg.len
        /\ (k = Len(words) /\ pc # "loop" /\ examined # <<>>) =>
              LET p == examined[Len(examined)] IN
              ByteAt(p) = 32 =>
                  ~(words[k].res.start <= p
                      /\ p < words[k].res.start + words[k].res.len)

C4_Witness ==
    /\ pc = "main"
    /\ Len(words) = 1
    /\ examined # <<>>
    /\ ByteAt(examined[Len(examined)]) = 32
    /\ words[1].res.len = examined[Len(examined)]
    /\ words[1].res.len > 0

\* C5: a view is never read after its buffer was mutated or freed: every
\* view that is still to be read is valid and lies within the buffer's
\* current contents, every read happened on such a view, and `take view;
\* clear; read` ends in the rejection E0502 with the buffer untouched.
C5_NoReadAfterInvalidate ==
    /\ \A k \in Calls :
          words[k].live => Valid(words[k].res) /\ InBounds(words[k].res)
    /\ printed.valid
    /\ pc = "E0502" => \E k \in Calls : words[k].live /\ Unmodified(k)

C5_Witness ==
    /\ pc = "E0502"
    /\ \E k \in Calls : words[k].live /\ words[k].res.len > 0
    /\ printed.k > 0

\* C6: when offset 0 of the buffer is a space, first_word returns the empty
\* view [0, 0), whatever follows.
C6_LeadingSpaceGivesEmpty ==
    \A k \in Calls :
        (Unmodified(k) /\ SpaceAt(0)) =>
            Range(words[k].res) = [start |-> 0, len |-> 0]

C6_Witness ==
    \E k \in Calls :
        /\ Unmodified(k)
        /\ SpaceAt(0)
        /\ s.len >= 3
        /\ words[k].res.len = 0

FirstSpace(b) == CHOOSE p \in 1..Len(b) : b[p] = 32 /\ \A q \in 1..(p - 1) : b[q] # 32

HasSpace(b) == \E p \in 1..Len(b) : b[p] = 32

\* b and c agree on every byte up to and including their first space
AgreeThroughFirstSpace(b, c) ==
    /\ HasSpace(b)
    /\ HasSpace(c)
    /\ FirstSpace(b) = FirstSpace(c)
    /\ SubSeq(b, 1, FirstSpace(b)) = SubSeq(c, 1, FirstSpace(c))

\* C7: with several spaces only the first is the boundary: the end offset is
\* the smallest offset holding a space, the scan examined the offsets up to
\* that one and none beyond, and every buffer that agrees with this one up to
\* and including the first space yields the same range.
C7_OnlyFirstSpaceCounts ==
    (pc # "loop" /\ words # <<>> /\ Unmodified(Len(words)) /\ HasSpace(Contents)) =>
        LET w == words[Len(words)].res
            f == FirstSpace(Contents) - 1
        IN  /\ w.start = 0
            /\ w.len = f
            /\ examined = [n \in 1..(f + 1) |-> n - 1]
            /\ \A t \in Texts :
                  AgreeThroughFirstSpace(StringFrom(t), Contents) =>
                      first_word(StringFrom(t)) = Range(w)

C7_Witness ==
    /\ pc = "main"
    /\ words # <<>>
    /\ Unmodified(Len(words))
    /\ Cardinality({p \in 1..s.len : mem[p] = 32}) >= 2
    /\ words[Len(words)].res.len = 1
    /\ Len(examined) = 2

\* C8: first_word is a pure read: no step of the scan, from the call to the
\* return, changes the String, its bytes, or anything else than the scan's
\* own locals and the view it returns.
C8_PureRead ==
    [][(pc = "loop" \/ pc' = "loop") =>
          /\ s' = s
          /\ mem' = mem
          /\ alloc' = alloc
          /\ gen' = gen
          /\ printed' = printed
          /\ \A k \in Calls : words'[k] = words[k]]_vars

C8_Witness ==
    /\ pc = "main"
    /\ Len(words) = 1
    /\ Unmodified(1)
    /\ words[1].res.len = 2
    /\ s.len = 4
    /\ mem[s.len] = 32

\* C9: the view returned aliases the input's storage: it carries the buffer
\* handle of the input and start offset 0, and it is valid exactly when the
\* input view is.
C9_AliasesInput ==
    \A k \in Calls :
        /\ words[k].res.buf = words[k].arg.buf
        /\ words[k].res.start = 0
        /\ Valid(words[k].res) <=> Valid(words[k].arg)

C9_Witness ==
    /\ Len(words) = 2
    /\ alloc
    /\ ~Valid(words[1].res)
    /\ ~Valid(words[1].arg)
    /\ words[1].res.len > 0
    /\ Valid(words[2].res)
    /\ Valid(words[2].arg)

\* C10: two calls of first_word on the same unmodified buffer return equal
\* views.
C10_SameViewTwice ==
    \A j \in Calls : \A k \in Calls :
        words[j].arg.gen = words[k].arg.gen => words[j].res = words[k].res

C10_Witness ==
    /\ Len(words) = 2
    /\ words[1].arg.gen = words[2].arg.gen
    /\ words[2].res.len > 0
    /\ words[2].res.len < words[2].arg.len

\* C11: first_word_better_signature returns the first word for both kinds of
\* input view, the same range first_word gives on the String.
C11_BetterSignatureReturnsFirstWord ==
    /\ pc # "E0308"
    /\ \A k \in 1..Len(better) :
          /\ better[k].res.buf = better[k].arg.buf
          /\ Range(better[k].res) = first_word(Contents)

\* the offsets 0, 1, .., n-1 in increasing order
UpTo(n) == [k \in 1..n |-> k - 1]

\* C14: the scan terminates, in one of two outcomes (space found / not
\* found); it examines the offsets in increasing order from 0, each once, at
\* most len of them: i+1 when the first space is at offset i, len when there
\* is none.
C14_TerminatesLinear ==
    /\ [](pc \in {"loop", "main"} =>
            /\ examined = UpTo(Len(examined))
            /\ Len(examined) <= bytes.len
            /\ (pc = "main" /\ words # <<>> /\ Unmodified(Len(words))) =>
                  LET w == words[Len(words)].res IN
                  \/ /\ SpaceAt(w.len)
                     /\ NoSpaceBefore(w.len)
                     /\ Len(examined) = w.len + 1
                  \/ /\ NoSpaceBefore(s.len)
                     /\ w.len = s.len
                     /\ Len(examined) = s.len)
    /\ (pc = "loop") ~> (pc = "main")

C14_Witness ==
    /\ pc = "main"
    /\ words # <<>>
    /\ Unmodified(Len(words))
    /\ s.len = 4
    /\ Len(examined) = 3
    /\ SpaceAt(2)

\* C18: the view first_word returns holds no space byte, so scanning the
\* view again returns the whole of it: first_word(first_word(b)) =
\* first_word(b).
C18_RescanIsFixedPoint ==
    \A k \in Calls :
        /\ \A p \in 1..words[k].res.len : Text(words[k].res)[p] # 32
        /\ first_word(Text(words[k].res))
              = [start |-> 0, len |-> words[k].res.len]
        /\ Unmodified(k) =>
              SubSeq(Contents, 1, first_word(Contents).len) = Text(words[k].res)

C18_Witness ==
    \E k \in Calls :
        /\ Unmodified(k)
        /\ words[k].res.len = 2
        /\ s.len = 4
        /\ Cardinality({p \in 1..s.len : mem[p] = 32}) = 2

\* C13: callers scanning concurrently over Strings of their own: under every
\* interleaving of their steps each caller gets the view it would get alone,
\* and no caller's String is changed by any scan.
C13_IndependentCallers ==
    \A c \in Callers :
        /\ conc[c].mem = conc[c].orig
        /\ conc[c].pc = "loop" => conc[c].i <= Len(conc[c].mem)
        /\ conc[c].pc = "done" =>
              /\ conc[c].res.buf = c
              /\ Range(conc[c].res) = first_word(conc[c].orig)

C13_Witness ==
    /\ conc["c1"].pc = "done"
    /\ conc["c2"].pc = "loop"
    /\ conc["c2"].i = 1
    /\ conc["c1"].res.len = 1
    /\ Len(conc["c1"].orig) = 2
    /\ conc["c1"].orig # conc["c2"].orig

Owners(a) == {v \in StrNames : own.st[v] = "owns" /\ own.at[v] = a}

\* C15: every String allocation is freed exactly once, when the scope of its
\* final owner ends: never twice, at the end of the program none is left
\* unfreed, and until then an allocation is unfreed exactly while a variable
\* in scope owns it; a moved-from variable frees nothing.
C15_FreedExactlyOnce ==
    \A a \in 1..MaxAllocs :
        /\ own.frees[a] <= 1
        /\ a > own.nalloc => own.frees[a] = 0
        /\ (own.status = "end" /\ a <= own.nalloc) => own.frees[a] = 1
        /\ (own.status \in {"run", "E0382"} /\ a <= own.nalloc) =>
              (own.frees[a] = 0 <=> Owners(a) # {})

C15_Witness ==
    /\ own.status = "end"
    /\ own.nalloc = 2
    /\ Cardinality({v \in StrNames : own.st[v] = "moved"}) = 2
    /\ \A a \in 1..own.nalloc : own.frees[a] = 1

\* C16: a String has one owner at a time: after a move (let s2 = s1, or
\* passing it to a function that takes ownership) the old variable is invalid
\* and every use of it is rejected with E0382; after clone() and after the
\* assignment of an integer both variables stay usable.
C16_SingleOwner ==
    /\ \A a \in 1..MaxAllocs : Cardinality(Owners(a)) <= 1
    /\ own.last.op \in {"move", "back"} =>
          /\ ~Usable(own.last.from)
          /\ Usable(own.last.to)
    /\ own.last.op = "takes" => ~Usable(own.last.from)
    /\ own.last.op = "use" => Usable(own.last.from)
    /\ own.status = "E0382" <=> own.last.op = "rejected"
    /\ own.last.op = "rejected" => own.st[own.last.from] = "moved"
    /\ own.last.op = "clone" =>
          /\ Usable(own.last.from)
          /\ Usable(own.last.to)
          /\ own.at[own.last.from] # own.at[own.last.to]
    /\ own.last.op \in {"copy", "makes_copy"} =>
          /\ Usable(own.last.from)
          /\ Usable(own.last.to)
    /\ \A v \in StrNames :
          (own.status = "run" /\ own.st[v] = "moved") =>
              /\ ENABLED (PrintlnVar(v) /\ own'.status = "E0382")
              /\ ~ENABLED (PrintlnVar(v) /\ own'.status = "run")

C16_Witness ==
    /\ own.status = "E0382"
    /\ own.st["s1"] = "moved"
    /\ own.st["s2"] = "owns"
    /\ own.st["s3"] = "owns"
    /\ own.at["s3"] # own.at["s2"]
    /\ own.st["x"] = "int"
    /\ own.st["y"] = "int"

\* C12: a String has either one mutable reference or any number of immutable
\* ones, never both and never two mutable ones: no reader holds a reference
\* across a mutation, a second &mut while the first is live is rejected
\* (E0499), and &mut while immutable references are still to be used is
\* rejected (E0502).
C12_OneWriterOrManyReaders ==
    /\ Cardinality(LiveRefs("mut")) <= 1
    /\ LiveRefs("mut") # {} => LiveRefs("shared") = {}
    /\ \A r \in LiveRefs("shared") : bor.refs[r].ver = bor.ver
    /\ bor.status = "E0499" => LiveRefs("mut") # {}
    /\ bor.status = "E0502" => LiveRefs("mut") # {} \/ LiveRefs("shared") # {}
    /\ \A r \in RefNames :
          (bor.status = "run" /\ bor.refs[r].kind = "none"
              /\ (LiveRefs("mut") # {} \/ LiveRefs("shared") # {})) =>
                /\ ENABLED (BorrowMut(r) /\ bor'.status \in {"E0499", "E0502"})
                /\ ~ENABLED (BorrowMut(r) /\ bor'.status = "run")

C12_Witness ==
    /\ bor.status = "E0502"
    /\ bor.last = "mut"
    /\ Cardinality(LiveRefs("shared")) = 2
    /\ bor.ver = 1

\* C17: references never dangle: what a live reference points to is still in
\* scope; returning a reference to the String created inside dangle is
\* rejected; a reference going out of scope does not drop the String, which
\* stays usable by its owner.
C17_NoDanglingReference ==
    /\ \A r \in RefNames : bor.refs[r].live => bor.alive[bor.refs[r].target]
    /\ \A r \in RefNames : bor.refs[r].target # "local"
    /\ bor.last = "dangle" <=> bor.status = "E0106"
    /\ bor.status \in {"run", "E0499", "E0502", "E0106"} =>
          bor.alive.s /\ bor.frees = 0
    /\ bor.status = "end" => ~bor.alive.s /\ bor.frees = 1
    /\ (bor.status = "run" /\ bor.last \in {"len", "endref", "use"}
            /\ LiveRefs("mut") = {}) =>
          ENABLED (OwnerUse /\ bor'.status = "run")

C17_Witness ==
    /\ bor.status = "run"
    /\ bor.last = "owner"
    /\ \E r \in RefNames : bor.refs[r].kind = "shared" /\ ~bor.refs[r].live
    /\ \E r \in RefNames : bor.refs[r].kind = "mut" /\ ~bor.refs[r].live
    /\ bor.alive.s

====
